---- MODULE Spec2Model ----
(***************************************************************************)
(* Resource Manager API (backend/server.py): a document store of resource  *)
(* records behind five handlers: create_resource, get_resources,           *)
(* update_resource, delete_resource and import_resources.                  *)
(*                                                                         *)
(* Strings are sequences of one-character strings over Chars.  A datetime  *)
(* is a clock reading (a natural number); its ISO-8601 string is the       *)
(* tagged pair <<"iso", t>>.  A uuid4 / ObjectId is a fresh natural.       *)
(* The clock is logical: each Resource construction reads a later time.    *)
(***************************************************************************)
EXTENDS Naturals, Sequences, FiniteSets, TLC

VARIABLES
    store,   \* db.resources: the stored documents, in insertion order
    nextId,  \* the next fresh identifier (uuid4 and ObjectId never repeat)
    now,     \* datetime.now(timezone.utc): a clock that every reading advances
    imp,     \* the import_resources call: its locals, its answer, and the
             \* ids of the documents it has inserted so far
    resp,    \* the answer of the latest create/list/update/delete call
    prev     \* the answer of the call before that one

vars == <<store, nextId, now, imp, resp, prev>>

----------------------------------------------------------------------------
(* Bounds of the model *)

\* longest upload enumerated exhaustively
MaxLen == 6
\* number of fresh identifiers handed out
MaxIds == 2

----------------------------------------------------------------------------
(* Text *)

Chars == {"a", ":", " ", "\n"}
\* a byte that is not valid UTF-8
BadByte == "0xFF"

Str(n) == UNION {[1..k -> Chars] : k \in 0..n}

\* longer uploads: two valid lines; a blank first line, a line without ':',
\* a blank line, a line with empty fields and a valid line; an undecodable
\* upload
SampleUploads ==
    { <<"a", ":", "a", ":", "a", "\n", "a", ":", "a", ":", "a">>,
      <<"\n", "a", "\n", "\n", ":", ":", "a", "\n", "a", ":", "a", ":", "a">>,
      <<"a", BadByte>> }

\* bytes.decode('utf-8'): raises UnicodeDecodeError on an invalid byte
decode(contents) ==
    IF \E k \in 1..Len(contents) : contents[k] = BadByte
    THEN [ok |-> FALSE, text |-> <<>>]
    ELSE [ok |-> TRUE, text |-> contents]

\* the characters str.strip() removes
IsSpace(c) == c \in {" ", "\n"}

RECURSIVE lstrip(_)
lstrip(s) ==
    IF s # <<>> /\ IsSpace(Head(s)) THEN lstrip(Tail(s)) ELSE s

RECURSIVE rstrip(_)
rstrip(s) ==
    IF s # <<>> /\ IsSpace(s[Len(s)])
    THEN rstrip(SubSeq(s, 1, Len(s) - 1))
    ELSE s

\* str.strip()
strip(s) == rstrip(lstrip(s))

\* str.split(sep): every occurrence of sep separates two parts
RECURSIVE split(_, _)
split(s, sep) ==
    IF \E k \in 1..Len(s) : s[k] = sep
    THEN LET j == CHOOSE k \in 1..Len(s) :
                      s[k] = sep /\ \A m \in 1..(k - 1) : s[m] # sep
         IN  <<SubSeq(s, 1, j - 1)>> \o split(SubSeq(s, j + 1, Len(s)), sep)
    ELSE <<s>>

\* a splitter that scans from the left: str.split(sep, maxsplit)
RECURSIVE lsplit(_, _, _)
lsplit(s, sep, maxsplit) ==
    IF maxsplit > 0 /\ \E k \in 1..Len(s) : s[k] = sep
    THEN LET j == CHOOSE k \in 1..Len(s) :
                      s[k] = sep /\ \A m \in 1..(k - 1) : s[m] # sep
         IN  <<SubSeq(s, 1, j - 1)>>
                 \o lsplit(SubSeq(s, j + 1, Len(s)), sep, maxsplit - 1)
    ELSE <<s>>

\* str.rsplit(sep, maxsplit): at most maxsplit splits, taken from the right
RECURSIVE rsplit(_, _, _)
rsplit(s, sep, maxsplit) ==
    IF maxsplit > 0 /\ \E k \in 1..Len(s) : s[k] = sep
    THEN LET j == CHOOSE k \in 1..Len(s) :
                      s[k] = sep /\ \A m \in (k + 1)..Len(s) : s[m] # sep
         IN  rsplit(SubSeq(s, 1, j - 1), sep, maxsplit - 1)
                 \o <<SubSeq(s, j + 1, Len(s))>>
    ELSE <<s>>

\* the loop body without the blank-line test
parse_line_no_skip(raw) ==
    LET line  == strip(raw)
        parts == rsplit(line, ":", 2)
        f     == [k \in 1..Len(parts) |-> strip(parts[k])]
    IN  IF Len(parts) # 3
        THEN [kind |-> "format", url |-> <<>>, login |-> <<>>, password |-> <<>>]
        ELSE IF f[1] = <<>> \/ f[2] = <<>> \/ f[3] = <<>>
        THEN [kind |-> "empty", url |-> <<>>, login |-> <<>>, password |-> <<>>]
        ELSE [kind |-> "ok", url |-> f[1], login |-> f[2], password |-> f[3]]

\* the loop body of import_resources up to the insert: what one line is
parse_line(raw) ==
    LET line  == strip(raw)
        parts == rsplit(line, ":", 2)
        f     == [k \in 1..Len(parts) |-> strip(parts[k])]
    IN  IF line = <<>>
        THEN [kind |-> "skip", url |-> <<>>, login |-> <<>>, password |-> <<>>]
        ELSE IF Len(parts) # 3
        THEN [kind |-> "format", url |-> <<>>, login |-> <<>>, password |-> <<>>]
        ELSE IF f[1] = <<>> \/ f[2] = <<>> \/ f[3] = <<>>
        THEN [kind |-> "empty", url |-> <<>>, login |-> <<>>, password |-> <<>>]
        ELSE [kind |-> "ok", url |-> f[1], login |-> f[2], password |-> f[3]]

\* the two per-line error messages, with the line number they carry
FormatError(i) == [n |-> i, text |-> "invalid format (expected url:login:pass)"]
EmptyError(i) == [n |-> i, text |-> "empty fields"]

----------------------------------------------------------------------------
(* Records and the document store *)

\* datetime.isoformat() and datetime.fromisoformat()
isoformat(t) == <<"iso", t>>
fromisoformat(s) == s[2]

\* a Resource whose is_active defaults to False
Resource_inactive(id, url, login, password, t) ==
    [id |-> id, url |-> url, login |-> login, password |-> password,
     is_active |-> FALSE, created_at |-> t]

\* Resource(url=..., login=..., password=...) with its default factories
Resource(id, url, login, password, t) ==
    [id |-> id, url |-> url, login |-> login, password |-> password,
     is_active |-> TRUE, created_at |-> t]

\* model_dump() with created_at replaced by its ISO string
to_doc(r) ==
    [id |-> r.id, url |-> r.url, login |-> r.login, password |-> r.password,
     is_active |-> r.is_active, created_at |-> isoformat(r.created_at)]

\* an insert that is buffered and never reaches the collection
insert_one_lost(s, doc, oid) == s

\* collection.insert_one(doc): the store adds its own _id
insert_one(s, doc, oid) ==
    Append(s, [_id |-> oid, id |-> doc.id, url |-> doc.url, login |-> doc.login,
               password |-> doc.password, is_active |-> doc.is_active,
               created_at |-> doc.created_at])

\* a stored document as the API returns it: _id dropped, created_at parsed
from_doc(d) ==
    [id |-> d.id, url |-> d.url, login |-> d.login, password |-> d.password,
     is_active |-> d.is_active, created_at |-> fromisoformat(d.created_at)]

\* to_list(1000)
ListLimit == 1000

Min(a, b) == IF a <= b THEN a ELSE b

\* find({}, {"_id": 0}).to_list(1000), then created_at parsed
get_resources(s) == [k \in 1..Min(Len(s), ListLimit) |-> from_doc(s[k])]

Ids(s) == {s[k].id : k \in 1..Len(s)}

\* the first document matching {"id": id}
FirstMatch(s, id) ==
    CHOOSE k \in 1..Len(s) : s[k].id = id /\ \A m \in 1..(k - 1) : s[m].id # id

\* an update without $set: the document is replaced, its url is lost
find_one_and_update_replace(s, id, v) ==
    IF id \in Ids(s)
    THEN LET k == FirstMatch(s, id)
             t2 == [s EXCEPT ![k].is_active = v, ![k].url = <<>>]
         IN  [store |-> t2, found |-> TRUE, result |-> <<t2[k]>>]
    ELSE [store |-> s, found |-> FALSE, result |-> <<>>]

\* an update with upsert=True that still reports no match: the missing
\* document is created from the filter and the $set
find_one_and_update_upsert(s, id, v) ==
    IF id \in Ids(s)
    THEN LET k == FirstMatch(s, id)
             t2 == [s EXCEPT ![k].is_active = v]
         IN  [store |-> t2, found |-> TRUE, result |-> <<t2[k]>>]
    ELSE [store |-> Append(s, [_id |-> 0, id |-> id, url |-> <<>>,
                               login |-> <<>>, password |-> <<>>,
                               is_active |-> v, created_at |-> isoformat(0)]),
          found |-> FALSE, result |-> <<>>]

\* find_one_and_update({"id": id}, {"$set": {"is_active": v}},
\*                     return_document=True): no upsert
find_one_and_update(s, id, v) ==
    IF id \in Ids(s)
    THEN LET k == FirstMatch(s, id)
             t2 == [s EXCEPT ![k].is_active = v]
         IN  [store |-> t2, found |-> TRUE, result |-> <<t2[k]>>]
    ELSE [store |-> s, found |-> FALSE, result |-> <<>>]

RemoveAt(s, k) == SubSeq(s, 1, k - 1) \o SubSeq(s, k + 1, Len(s))

\* a delete that reports a count of 1 whatever it removed
delete_one_miscount(s, id) ==
    IF id \in Ids(s)
    THEN [store |-> RemoveAt(s, FirstMatch(s, id)), deleted_count |-> 1]
    ELSE [store |-> s, deleted_count |-> 1]

\* delete_one({"id": id})
delete_one(s, id) ==
    IF id \in Ids(s)
    THEN [store |-> RemoveAt(s, FirstMatch(s, id)), deleted_count |-> 1]
    ELSE [store |-> s, deleted_count |-> 0]

----------------------------------------------------------------------------
(* The calls *)

\* values a client sends as url, as login and as password
Urls == {<<>>, <<"a">>}
Logins == {<<"a">>}
Passwords == {<<"a">>}

NoCall == [op |-> "none", id |-> 0, arg |-> FALSE, status |-> 0, body |-> <<>>]

Answer(op, id, arg, status, body) ==
    [op |-> op, id |-> id, arg |-> arg, status |-> status, body |-> body]

\* what is remembered of the answer before the latest one: the call, its
\* status and, of a create, the record it returned
Earlier(r) ==
    [op |-> r.op, id |-> r.id, arg |-> FALSE, status |-> r.status,
     body |-> IF r.op = "create" THEN r.body ELSE <<>>]

Idle ==
    [pc |-> "idle", contents |-> <<>>, lines |-> <<>>, i |-> 0, imported |-> 0,
     errors |-> <<>>, status |-> 0, detail |-> "", ids |-> {}]

\* the call as it stands once file.read() has returned
Reading(contents) ==
    [pc |-> "read", contents |-> contents, lines |-> <<>>, i |-> 0,
     imported |-> 0, errors |-> <<>>, status |-> 0, detail |-> "", ids |-> {}]

\* POST /resources
create_resource(url, login, password) ==
    /\ nextId <= MaxIds
    /\ LET resource_obj == Resource(nextId, url, login, password, now)
       IN  /\ store' = insert_one(store, to_doc(resource_obj), nextId)
           /\ resp' = Answer("create", resource_obj.id, TRUE, 200, <<resource_obj>>)
    /\ nextId' = nextId + 1
    /\ now' = now + 1
    /\ prev' = Earlier(resp)
    /\ UNCHANGED imp

\* GET /resources
list_resources ==
    /\ resp' = Answer("list", 0, FALSE, 200, get_resources(store))
    /\ prev' = Earlier(resp)
    /\ UNCHANGED <<store, nextId, now, imp>>

\* PUT /resources/{resource_id}
update_resource(resource_id, is_active) ==
    /\ LET r == find_one_and_update(store, resource_id, is_active)
       IN  /\ store' = r.store
           /\ resp' = IF r.found
                      THEN Answer("update", resource_id, is_active, 200,
                                  <<from_doc(r.result[1])>>)
                      ELSE Answer("update", resource_id, is_active, 404, <<>>)
    /\ prev' = Earlier(resp)
    /\ UNCHANGED <<nextId, now, imp>>

\* DELETE /resources/{resource_id}
delete_resource(resource_id) ==
    /\ LET r == delete_one(store, resource_id)
       IN  /\ store' = r.store
           /\ resp' = IF r.deleted_count = 0
                      THEN Answer("delete", resource_id, FALSE, 404, <<>>)
                      ELSE Answer("delete", resource_id, FALSE, 200, <<>>)
    /\ prev' = Earlier(resp)
    /\ UNCHANGED <<nextId, now, imp>>

\* the store operation of a create/list/update/delete call raises: the
\* handler has no except clause, the framework answers 500
store_unavailable(op) ==
    /\ resp' = Answer(op, 0, FALSE, 500, <<>>)
    /\ prev' = Earlier(resp)
    /\ UNCHANGED <<store, nextId, now, imp>>

\* POST /resources/import arrives and file.read() returns the upload
import_request(contents) ==
    /\ imp.pc = "idle"
    /\ imp' = Reading(contents)
    /\ UNCHANGED <<store, nextId, now, resp, prev>>

\* contents.decode('utf-8') raises: except Exception -> 400
import_decode_error ==
    /\ imp.pc = "read"
    /\ ~decode(imp.contents).ok
    /\ imp' = [imp EXCEPT !.pc = "done", !.status = 400, !.detail = "decode"]
    /\ UNCHANGED <<store, nextId, now, resp, prev>>

\* text = contents.decode('utf-8'); lines = text.strip().split('\n')
import_split ==
    /\ imp.pc = "read"
    /\ decode(imp.contents).ok
    /\ imp' = [imp EXCEPT !.pc = "loop", !.i = 1,
                          !.lines = split(strip(decode(imp.contents).text), "\n")]
    /\ UNCHANGED <<store, nextId, now, resp, prev>>

InLoop == imp.pc = "loop" /\ imp.i <= Len(imp.lines)

\* if not line: continue
import_skip ==
    /\ InLoop
    /\ parse_line(imp.lines[imp.i]).kind = "skip"
    /\ imp' = [imp EXCEPT !.i = @ + 1]
    /\ UNCHANGED <<store, nextId, now, resp, prev>>

\* len(parts) != 3: the error is appended, the loop continues
import_format_error ==
    /\ InLoop
    /\ parse_line(imp.lines[imp.i]).kind = "format"
    /\ imp' = [imp EXCEPT !.i = @ + 1,
                          !.errors = Append(@, FormatError(imp.i))]
    /\ UNCHANGED <<store, nextId, now, resp, prev>>

\* an empty field: the error is appended, the loop continues
import_empty_error ==
    /\ InLoop
    /\ parse_line(imp.lines[imp.i]).kind = "empty"
    /\ imp' = [imp EXCEPT !.i = @ + 1,
                          !.errors = Append(@, EmptyError(imp.i))]
    /\ UNCHANGED <<store, nextId, now, resp, prev>>

\* a valid line: one insert_one, then imported += 1
import_insert ==
    /\ InLoop
    /\ nextId <= MaxIds
    /\ LET p == parse_line(imp.lines[imp.i])
           resource_obj == Resource(nextId, p.url, p.login, p.password, now)
       IN  /\ p.kind = "ok"
           /\ store' = insert_one(store, to_doc(resource_obj), nextId)
    /\ nextId' = nextId + 1
    /\ imp' = [imp EXCEPT !.i = @ + 1, !.imported = @ + 1,
                          !.ids = @ \cup {nextId}]
    /\ now' = now + 1
    /\ UNCHANGED <<resp, prev>>

\* insert_one raises: except Exception -> 400
import_insert_error ==
    /\ InLoop
    /\ parse_line(imp.lines[imp.i]).kind = "ok"
    /\ imp' = [imp EXCEPT !.pc = "done", !.status = 400, !.detail = "store"]
    /\ UNCHANGED <<store, nextId, now, resp, prev>>

\* the loop is over: return {"message", "imported", "errors"}
import_return ==
    /\ imp.pc = "loop"
    /\ imp.i > Len(imp.lines)
    /\ imp' = [imp EXCEPT !.pc = "done", !.status = 200]
    /\ UNCHANGED <<store, nextId, now, resp, prev>>

----------------------------------------------------------------------------
(* The service: any interleaving of create/list/update/delete calls with   *)
(* the steps of one import call                                             *)

Init ==
    /\ store = <<>>
    /\ nextId = 1
    /\ now = 0
    /\ imp = Idle
    /\ resp = NoCall
    /\ prev = NoCall

Next ==
    \/ \E u \in Urls, l \in Logins, p \in Passwords : create_resource(u, l, p)
    \/ list_resources
    \/ \E id \in 1..MaxIds, v \in BOOLEAN : update_resource(id, v)
    \/ \E id \in 1..MaxIds : delete_resource(id)
    \/ \E op \in {"create", "list", "update", "delete"} : store_unavailable(op)
    \/ \E c \in SampleUploads : import_request(c)
    \/ import_decode_error
    \/ import_split
    \/ import_skip
    \/ import_format_error
    \/ import_empty_error
    \/ import_insert
    \/ import_insert_error
    \/ import_return

Spec == Init /\ [][Next]_vars

(* One import call on an empty store, with list calls running beside it *)

StoreBeforeImport == <<>>

InitImport ==
    /\ store = StoreBeforeImport
    /\ nextId = 1
    /\ now = 0
    /\ imp \in {Reading(c) : c \in Str(MaxLen) \cup SampleUploads}
    /\ resp = NoCall
    /\ prev = NoCall

NextImport ==
    \/ import_decode_error
    \/ import_split
    \/ import_skip
    \/ import_format_error
    \/ import_empty_error
    \/ import_insert
    \/ import_insert_error
    \/ import_return
    \/ list_resources

SpecImport == InitImport /\ [][NextImport]_vars

----------------------------------------------------------------------------
(* What the import is required to do, stated on the raw upload by position *)
(* sets, without the splitting and stripping operators of the handler      *)

MaxOf(S) == CHOOSE x \in S : \A y \in S : y <= x
MinOf(S) == CHOOSE x \in S : \A y \in S : x <= y

\* t without its leading and trailing blanks
Trimmed(t) ==
    LET solid == {k \in 1..Len(t) : t[k] \notin {" ", "\n"}}
    IN  IF solid = {} THEN <<>> ELSE SubSeq(t, MinOf(solid), MaxOf(solid))

Newlines(text) == {k \in 1..Len(text) : text[k] = "\n"}
NumLines(text) == Cardinality(Newlines(text)) + 1

\* the position of the k-th newline of the text
NthNewline(text, k) ==
    CHOOSE q \in Newlines(text) :
        Cardinality({r \in Newlines(text) : r <= q}) = k

\* line n of the raw text, counted from its first line
RawLine(text, n) ==
    LET first == IF n = 1 THEN 1 ELSE NthNewline(text, n - 1) + 1
        last  == IF n = NumLines(text) THEN Len(text)
                 ELSE NthNewline(text, n) - 1
    IN  SubSeq(text, first, last)

Colons(t) == {k \in 1..Len(t) : t[k] = ":"}

\* what a line must come to: skipped, one of the two errors, or a record
Required(raw) ==
    LET t == Trimmed(raw)
        c == Colons(t)
    IN  IF t = <<>> THEN [kind |-> "skip", fields |-> <<>>]
        ELSE IF Cardinality(c) < 2 THEN [kind |-> "format", fields |-> <<>>]
        ELSE LET last == MaxOf(c)
                 mid  == MaxOf(c \ {last})
                 url      == Trimmed(SubSeq(t, 1, mid - 1))
                 login    == Trimmed(SubSeq(t, mid + 1, last - 1))
                 password == Trimmed(SubSeq(t, last + 1, Len(t)))
             IN  IF url = <<>> \/ login = <<>> \/ password = <<>>
                 THEN [kind |-> "empty", fields |-> <<>>]
                 ELSE [kind |-> "ok", fields |-> <<url, login, password>>]

RequiredOfLine(text, n) == Required(RawLine(text, n))

RejectedLines(text) ==
    {n \in 1..NumLines(text) : RequiredOfLine(text, n).kind \in {"format", "empty"}}
ValidLines(text) ==
    {n \in 1..NumLines(text) : RequiredOfLine(text, n).kind = "ok"}
NonBlankLines(text) ==
    {n \in 1..NumLines(text) : RequiredOfLine(text, n).kind # "skip"}

\* the k-th smallest member of a set of numbers
NthOf(S, k) == CHOOSE x \in S : Cardinality({y \in S : y <= x}) = k

MessageOf(kind) ==
    IF kind = "format" THEN "invalid format (expected url:login:pass)"
    ELSE "empty fields"

Returned == imp.pc = "done" /\ imp.status = 200

\* the documents the import call has inserted, in store order
Inserted == SelectSeq(store, LAMBDA d : d.id \in imp.ids)

\* a step that is a create/list/update/delete call
CallStep == resp' # resp \/ prev' # prev

\* the step in which the import call answers with an error
ImportFails == imp'.status = 400 /\ imp.status # 400

ListedIds(body) == {body[k].id : k \in 1..Len(body)}

----------------------------------------------------------------------------
(* Claims about import_resources, checked under SpecImport *)

\* C1: every error message of a returned import carries the number of the
\* offending line counted from the first line of the raw upload, and every
\* rejected line of the upload has its message.
C1_ErrorNumbersAreRawLineNumbers ==
    Returned =>
        {<<imp.errors[k].n, imp.errors[k].text>> : k \in 1..Len(imp.errors)}
            = {<<n, MessageOf(RequiredOfLine(imp.contents, n).kind)>> :
                   n \in RejectedLines(imp.contents)}

\* C2: a decodable upload whose inserts all succeed is answered with success;
\* imported + length(errors) is the number of non-blank lines, the store has
\* gained exactly one active record per valid line and nothing else.
C2_LineProblemsNeverAbort ==
    /\ imp.pc = "done" /\ decode(imp.contents).ok /\ imp.detail # "store"
           => imp.status = 200
    /\ Returned =>
           /\ imp.imported + Len(imp.errors)
                  = Cardinality(NonBlankLines(imp.contents))
           /\ imp.imported = Cardinality(ValidLines(imp.contents))
           /\ Len(imp.errors) = Cardinality(RejectedLines(imp.contents))
           /\ Cardinality(imp.ids) = imp.imported
           /\ store = StoreBeforeImport \o Inserted
           /\ Len(Inserted) = imp.imported
           /\ \A k \in 1..Len(Inserted) : Inserted[k].is_active

\* C2 witness: a returned import with two skipped blank lines, two rejected
\* lines and a valid line after the rejected ones.
C2_Witness ==
    /\ Returned
    /\ imp.imported = 1
    /\ Len(imp.errors) = 2
    /\ NumLines(imp.contents) = 5
    /\ MaxOf(ValidLines(imp.contents)) > MaxOf(RejectedLines(imp.contents))
    /\ Len(store) = 1

\* C3: of a returned import, in line order: a non-blank line is answered
\* "invalid format" exactly when it has fewer than two ':'; otherwise its
\* password is the text after the last ':', its login the text between the
\* last two, its url all that precedes (inner ':' kept), each trimmed; it is
\* inserted with these values unless one is empty, which is answered
\* "empty fields".
C3_RightSplitBoundedToTwo ==
    Returned =>
        /\ Len(imp.errors) = Cardinality(RejectedLines(imp.contents))
        /\ \A k \in 1..Len(imp.errors) :
               imp.errors[k].text =
                   MessageOf(RequiredOfLine(imp.contents,
                                 NthOf(RejectedLines(imp.contents), k)).kind)
        /\ Len(Inserted) = Cardinality(ValidLines(imp.contents))
        /\ \A k \in 1..Len(Inserted) :
               <<Inserted[k].url, Inserted[k].login, Inserted[k].password>> =
                   RequiredOfLine(imp.contents,
                       NthOf(ValidLines(imp.contents), k)).fields

\* C3 witness: a returned import that inserted a record whose url holds ':'.
C3_Witness ==
    /\ Returned
    /\ Len(store) = 1
    /\ Colons(store[1].url) # {}
    /\ Cardinality(Colons(imp.contents)) >= 3

\* C4: import answers 400 only when decoding fails; a failed insert is
\* answered 500.
C4_OnlyDecodeFailureIs400 ==
    imp.pc = "done" =>
        /\ imp.status = 400 => ~decode(imp.contents).ok
        /\ imp.detail = "store" => imp.status = 500


\* C6: an import that failed at the insert of its k-th valid line has left
\* the records of its first k-1 valid lines in the store, where they stay;
\* a list call that runs while the import is in progress, or after it,
\* returns every record the import has inserted so far.
C6_NoRollbackOfImport ==
    [][ /\ imp'.pc = "done" /\ imp'.detail = "store"
            => /\ imp'.imported < Cardinality(ValidLines(imp'.contents))
               /\ Cardinality(imp'.ids) = imp'.imported
               /\ imp'.ids \subseteq Ids(store')
               /\ store' = StoreBeforeImport \o Inserted'
               /\ \A k \in 1..Len(Inserted') :
                      <<Inserted'[k].url, Inserted'[k].login,
                        Inserted'[k].password>> =
                          RequiredOfLine(imp'.contents,
                              NthOf(ValidLines(imp'.contents), k)).fields
        /\ CallStep /\ resp'.op = "list" /\ resp'.status = 200
            => /\ imp.ids \subseteq ListedIds(resp'.body)
               /\ Len(resp'.body) = Len(StoreBeforeImport) + imp.imported
      ]_vars

\* C6 witness: the import failed at the insert of its second valid line, the
\* record of its first valid line is stored and a list call returned it.
C6_Witness ==
    /\ imp.pc = "done" /\ imp.detail = "store"
    /\ imp.imported = 1
    /\ Cardinality(ValidLines(imp.contents)) = 2
    /\ imp.ids \subseteq Ids(store)
    /\ Len(store) = 1
    /\ resp.op = "list" /\ resp.status = 200
    /\ ListedIds(resp.body) = imp.ids

----------------------------------------------------------------------------
(* Claims about the service, checked under Spec *)

\* C5 as claimed: a list call, an update or delete answered NotFound, and an
\* import answered with an error leave the store as it was before the call:
\* none of the records the failed import inserted is in the store when it
\* answers.
C5_FailedCallsLeaveStoreAsBefore ==
    [][ /\ CallStep /\ (resp'.op = "list" \/ resp'.status = 404)
            => store' = store
        /\ ImportFails => store' = store /\ Ids(store') \cap imp'.ids = {}
      ]_vars

\* C5 amended: a list call, an update or delete answered NotFound, any call
\* answered 500 and the step in which an import answers with an error change
\* no stored record; an import that fails at decoding has inserted nothing,
\* and an import that fails at an insert undoes none of its earlier inserts.
C5_FailingStepsChangeNothing ==
    [][ /\ CallStep /\ (resp'.op = "list" \/ resp'.status \in {404, 500})
            => store' = store
        /\ ImportFails => store' = store
        /\ ImportFails /\ imp'.detail = "decode" => imp'.ids = {}
      ]_vars

\* C5 witness: an import has failed at its second insert and its first
\* record is still stored, and the latest call was answered NotFound.
C5_Witness ==
    /\ imp.status = 400
    /\ imp.detail = "store"
    /\ imp.imported = 1
    /\ imp.ids # {}
    /\ imp.ids \subseteq Ids(store)
    /\ resp.status = 404

IsValidTriple(r) == r.url # <<>> /\ r.login # <<>> /\ r.password # <<>>

CreateThenList ==
    /\ prev.op = "create" /\ prev.status = 200
    /\ resp.op = "list" /\ resp.status = 200

\* C7 as claimed: a list call right after a create of a valid triple returns
\* exactly one record with that url, login and password, and it is active.
C7_ExactlyOneMatchingTriple ==
    CreateThenList /\ IsValidTriple(prev.body[1]) =>
        LET c == prev.body[1]
            m == {k \in 1..Len(resp.body) :
                      /\ resp.body[k].url = c.url
                      /\ resp.body[k].login = c.login
                      /\ resp.body[k].password = c.password}
        IN  Cardinality(m) = 1 /\ \A k \in m : resp.body[k].is_active

\* C7 amended: a list call right after a create, when it returns fewer than
\* 1000 records, returns exactly one record with the id the create returned;
\* that record has the created url, login, password and created_at and is
\* active.
C7_ExactlyOneWithCreatedId ==
    CreateThenList /\ Len(resp.body) < ListLimit =>
        LET c == prev.body[1]
            m == {k \in 1..Len(resp.body) : resp.body[k].id = prev.id}
        IN  /\ Cardinality(m) = 1
            /\ \A k \in m : resp.body[k] = c /\ resp.body[k].is_active

\* C7 witness: a list right after a create returns two records with the
\* created triple.
C7_Witness ==
    /\ CreateThenList
    /\ IsValidTriple(prev.body[1])
    /\ Len(resp.body) = 2
    /\ resp.body[1].url = resp.body[2].url
    /\ resp.body[1].login = resp.body[2].login
    /\ resp.body[1].password = resp.body[2].password
    /\ resp.body[2].id = prev.id

\* C8: every stored record has a non-empty url, login and password.
C8_StoredFieldsNonEmpty ==
    \A k \in 1..Len(store) : IsValidTriple(store[k])

\* C9: an update or delete whose store operation runs when no record has the
\* id answers NotFound and changes nothing (an update never creates); one
\* that runs when a record has the id succeeds, and a successful delete
\* removes the id; an id that has left the store never returns, so of two
\* deletes of one id exactly one succeeds.
C9_AbsentIdIsNotFound ==
    [][ /\ \A id \in 1..(nextId - 1) :
               id \notin Ids(store) => id \notin Ids(store')
        /\ CallStep /\ resp'.op \in {"update", "delete"} /\ resp'.status # 500
            => /\ resp'.id \notin Ids(store)
                   => resp'.status = 404 /\ store' = store
               /\ resp'.id \in Ids(store) => resp'.status = 200
               /\ resp'.op = "delete" /\ resp'.status = 200
                   => resp'.id \notin Ids(store')
               /\ Ids(store') \subseteq Ids(store)
      ]_vars

\* C9 witness: two deletes of one id in a row, the first answered 200, the
\* second NotFound.
C9_Witness ==
    /\ prev.op = "delete" /\ prev.status = 200
    /\ resp.op = "delete" /\ resp.status = 404
    /\ resp.id = prev.id
    /\ resp.id < nextId

SameButActive(d, e) ==
    /\ d._id = e._id /\ d.id = e.id /\ d.url = e.url /\ d.login = e.login
    /\ d.password = e.password /\ d.created_at = e.created_at

\* C10: in every step a record that stays in the store keeps its id, url,
\* login, password and created_at; is_active changes only in a successful
\* update of that id; a successful update(id, v) leaves is_active = v on the
\* record with that id, returns that record as stored after the update, and
\* changes no other record.
C10_OnlyIsActiveChanges ==
    [][ /\ \A k \in 1..Len(store), m \in 1..Len(store') :
               store[k].id = store'[m].id
                   => /\ SameButActive(store[k], store'[m])
                      /\ store[k].is_active # store'[m].is_active
                             => /\ resp'.op = "update" /\ resp'.status = 200
                                /\ resp'.id = store[k].id
        /\ CallStep /\ resp'.op = "update" /\ resp'.status = 200
            => /\ Len(store') = Len(store)
               /\ \E k \in 1..Len(store') :
                      /\ store'[k].id = resp'.id
                      /\ store'[k].is_active = resp'.arg
                      /\ resp'.body = <<from_doc(store'[k])>>
                      /\ \A m \in 1..Len(store') : m # k => store'[m] = store[m]
      ]_vars

\* C10 witness: an update has set one of two stored records inactive; the
\* other is still active.
C10_Witness ==
    /\ resp.op = "update" /\ resp.status = 200 /\ ~resp.arg
    /\ Len(store) = 2
    /\ \E k \in 1..2 : store[k].id = resp.id /\ ~store[k].is_active
    /\ \E k \in 1..2 : store[k].id # resp.id /\ store[k].is_active


====
